---------------------------- MODULE Spec2Model ----------------------------
(***************************************************************************)
(* A model of the generic finite state machine of FSM.h:                   *)
(*   template<class State, State Initial, class Trigger> class FSM         *)
(* instantiated as in the header's example (States {A,B,C}, Triggers       *)
(* {a,b}, Initial = States::A).                                            *)
(*                                                                         *)
(* The caller of the API is either the program that owns the instance or   *)
(* the action callback of a transition that is firing (Execute invokes it  *)
(* at line 124 and is suspended there until it returns).  `stack` holds    *)
(* the suspended Execute invocations.  A callback may call GetState,       *)
(* IsInitial, SetState and Execute on the instance; AddTransitions is      *)
(* called by the owning program only (a callback that appends to the       *)
(* vector being iterated invalidates the reference `transition`).          *)
(***************************************************************************)
EXTENDS Integers, Sequences, FiniteSets, TLC

\* ------------------------------------------------------------------ bounds
\* total number of transitions registered in one instance
MaxTrans == 2
\* nesting depth of Execute invocations (an action that calls Execute)
MaxDepth == 2

\* --------------------------------------------------------------- constants
\* enum class States : uint8_t { A, B, C }
NumStates == 3
\* enum class Triggers : uint8_t { a, b }
NumTriggers == 2
\* the template argument `State Initial` (States::A in the example)
Initial == 0

State == 0 .. (NumStates - 1)
Trigger == 0 .. (NumTriggers - 1)

\* struct Trans: m_action is whether the std::function holds a target
Trans == [m_originState : State, m_destinationState : State,
          m_trigger : Trigger, m_action : BOOLEAN]

\* The values a default-initialised (never assigned) m_currentState can hold:
\* any enumerator, or a bit pattern that is none of them (NumStates stands
\* for every such pattern: no key of the table and not Initial).
Indeterminate == State \cup {NumStates}

VARIABLES
    m_currentState,   \* State m_currentState
    m_transitions,    \* std::map<State, std::vector<Trans>> m_transitions
    stack,            \* Execute invocations suspended in their action callback
    last,             \* the last call event observed at the API
    script,           \* progress along the calls of the header's example
    ir,               \* irange.h: a range-based for loop over an irange
    sv,               \* LazyStringSplit.h: a loop over a SplitView
    ad,               \* async_deferred.h: the tasks started and their futures
    ic,               \* arithmetic_comparison.h: a call of integral_compare
    dc,               \* Dictionary.h: a Dictionary and the queries made of it
    es,               \* EncryptedString.h: an EncryptedString
    rd,               \* expand_stl.h: a call of reduce
    rx                \* Reactive.h: a collection streamed into a chain

\* the state of the FSM instance
fsmVars == <<m_currentState, m_transitions, stack, last, script>>
\* the state of the other headers' objects (independent of the FSM)
otherVars == <<ir, sv, ad, ic, dc, es, rd, rx>>
\* the loops and the thread of irange.h, LazyStringSplit.h, async_deferred.h
loopVars == <<ir, sv, ad>>
\* the calls of the headers of functions and compile-time values
pureVars == <<ic, dc, es, rd, rx>>

vars == <<m_currentState, m_transitions, stack, last, script, ir, sv, ad,
          ic, dc, es, rd, rx>>

\* the value of a variable whose object the specification does not construct
Unused == [pc |-> "unused"]

PureUnused == ic = Unused /\ dc = Unused /\ es = Unused /\ rd = Unused /\ rx = Unused
LoopsUnused == ir = Unused /\ sv = Unused /\ ad = Unused

\* -------------------------------------------------------------- call events
\* coll: the collection passed to a constructor or to AddTransitions
NoEvent == [op |-> "none", arg |-> 0, from |-> 0, ret |-> FALSE, val |-> 0,
            idx |-> 0, fired |-> 0, acts |-> 0, coll |-> <<>>]

Event(op, arg) == [NoEvent EXCEPT !.op = op, !.arg = arg]

\* ------------------------------------------------------------------- table
EmptyTable == [s \in {} |-> <<>>]

\* the registration by assignment: the list of the origin is replaced
EmplaceReplace(table, c) ==
    [k \in DOMAIN table \cup {c.m_originState} |->
        IF k = c.m_originState THEN <<c>> ELSE table[k]]

\* the registration rejecting a transition whose (origin, trigger) is
\* already registered
EmplaceUnique(table, c) ==
    IF c.m_originState \in DOMAIN table
       /\ \E i \in 1 .. Len(table[c.m_originState]) :
              table[c.m_originState][i].m_trigger = c.m_trigger
    THEN table
    ELSE [k \in DOMAIN table \cup {c.m_originState} |->
            IF k = c.m_originState
            THEN (IF k \in DOMAIN table THEN Append(table[k], c) ELSE <<c>>)
            ELSE table[k]]

\* m_transitions[c.m_originState].emplace_back(c)
EmplaceBack(table, c) ==
    [k \in DOMAIN table \cup {c.m_originState} |->
        IF k = c.m_originState
        THEN (IF k \in DOMAIN table THEN Append(table[k], c) ELSE <<c>>)
        ELSE table[k]]

\* for (const auto& c : xi_collection) m_transitions[...].emplace_back(c)
RECURSIVE AddAll(_, _)
AddAll(table, xi_collection) ==
    IF xi_collection = <<>> THEN table
    ELSE AddAll(EmplaceBack(table, Head(xi_collection)), Tail(xi_collection))

RECURSIVE SumLen(_, _)
SumLen(table, keys) ==
    IF keys = {} THEN 0
    ELSE LET k == CHOOSE x \in keys : TRUE
         IN Len(table[k]) + SumLen(table, keys \ {k})

\* number of transitions registered
Size(table) == SumLen(table, DOMAIN table)

\* the collections a caller passes: sequences of at most n Trans
Collections(n) == UNION {[1 .. k -> Trans] : k \in 0 .. n}

\* ----------------------------------------------------------------- Execute
\* the scan with the test of line 121 dropped: the first transition of the
\* list fires whatever its trigger
ScanFromAny(list, xi_trigger, i) == IF i > Len(list) THEN 0 ELSE i

\* the scan keeping the last match instead of returning at the first
ScanLast(list, xi_trigger, i) ==
    LET S == {k \in i .. Len(list) : list[k].m_trigger = xi_trigger}
    IN IF S = {} THEN 0 ELSE CHOOSE x \in S : \A y \in S : y <= x

\* the range-for of line 118 from position i: the first position j >= i
\* whose trigger is xi_trigger (line 121 skips the others), 0 at the end
RECURSIVE ScanFrom(_, _, _)
ScanFrom(list, xi_trigger, i) ==
    IF i > Len(list) THEN 0
    ELSE IF list[i].m_trigger = xi_trigger THEN i
    ELSE ScanFrom(list, xi_trigger, i + 1)

\* the loop without the `return true` of line 130: it goes on to position j + 1
LoopContinue(list, xi_trigger, j) == j + 1

\* where the range-for resumes once the transition at position j has fired;
\* 0: it does not, `return true` (line 130) leaves the function
LoopExit(list, xi_trigger, j) == 0

\* c: [state (m_currentState), fired (assignments of line 127 so far),
\*     acts (callbacks invoked so far at line 124)]
RECURSIVE Loop(_, _, _, _), Body(_, _, _, _)
\* the firing without the assignment of line 127
BodyKeepState(list, xi_trigger, j, c) ==
    [pc |-> "return", ret |-> TRUE, idx |-> j, state |-> c.state,
     fired |-> c.fired + 1, acts |-> c.acts]

\* the firing reporting whether the state value changed, not that a
\* transition fired
BodyReportsChange(list, xi_trigger, j, c) ==
    [pc |-> "return", ret |-> (list[j].m_destinationState # c.state), idx |-> j,
     state |-> list[j].m_destinationState, fired |-> c.fired + 1,
     acts |-> c.acts]

\* lines 126-130: the transition at position j fires, its action (if any)
\* having returned
Body(list, xi_trigger, j, c) ==
    LET c2 == [c EXCEPT !.state = list[j].m_destinationState, !.fired = @ + 1]
        r  == LoopExit(list, xi_trigger, j)
    IN IF r = 0
       THEN [pc |-> "return", ret |-> TRUE, idx |-> j, state |-> c2.state,
             fired |-> c2.fired, acts |-> c2.acts]
       ELSE Loop(list, xi_trigger, r, c2)

\* the loop with lines 124 and 127 swapped: the state is updated before the
\* action is invoked
LoopUpdateFirst(list, xi_trigger, i, c) ==
    LET j == ScanFrom(list, xi_trigger, i)
    IN IF j = 0
       THEN [pc |-> "return", ret |-> FALSE, idx |-> 0, state |-> c.state,
             fired |-> c.fired, acts |-> c.acts]
       ELSE IF list[j].m_action
       THEN [pc |-> "action", ret |-> FALSE, idx |-> j,
             state |-> list[j].m_destinationState,
             fired |-> c.fired, acts |-> c.acts + 1]
       ELSE Body(list, xi_trigger, j, c)

\* the loop without the test of line 124: calling an empty std::function
\* throws std::bad_function_call
LoopCallsEmpty(list, xi_trigger, i, c) ==
    LET j == ScanFrom(list, xi_trigger, i)
    IN IF j = 0
       THEN [pc |-> "return", ret |-> FALSE, idx |-> 0, state |-> c.state,
             fired |-> c.fired, acts |-> c.acts]
       ELSE [pc |-> IF list[j].m_action THEN "action" ELSE "throw",
             ret |-> FALSE, idx |-> j, state |-> c.state,
             fired |-> c.fired, acts |-> c.acts + 1]

\* lines 118-134 from position i: "return" with the value returned, or
\* "action" when the invocation is at line 124 inside the callback of idx
Loop(list, xi_trigger, i, c) ==
    LET j == ScanFrom(list, xi_trigger, i)
    IN IF j = 0
       THEN [pc |-> "return", ret |-> FALSE, idx |-> 0, state |-> c.state,
             fired |-> c.fired, acts |-> c.acts]
       ELSE IF list[j].m_action
       THEN [pc |-> "action", ret |-> FALSE, idx |-> j, state |-> c.state,
             fired |-> c.fired, acts |-> c.acts + 1]
       ELSE Body(list, xi_trigger, j, c)

\* the lookup by m_transitions.lower_bound instead of find: the vector of the
\* first key not less than the state
FindLowerBound(table, state) ==
    LET ks == {k \in DOMAIN table : k >= state}
    IN IF ks = {} THEN <<>>
       ELSE table[CHOOSE k \in ks : \A y \in ks : k <= y]

\* the lookup without the test of line 115: an absent key falls back to the
\* first entry of the map
FindOrBegin(table, state) ==
    IF state \in DOMAIN table THEN table[state]
    ELSE IF DOMAIN table = {} THEN <<>>
    ELSE table[CHOOSE k \in DOMAIN table : \A y \in DOMAIN table : k <= y]

\* lines 112-115: the vector of the current state, found by key
Find(table, state) == IF state \in DOMAIN table THEN table[state] ELSE <<>>

\* Execute from its entry up to its return or its first callback
Dispatch(table, state, xi_trigger) ==
    Loop(Find(table, state), xi_trigger, 1,
         [state |-> state, fired |-> 0, acts |-> 0])

\* ------------------------------------------------- the header's example
A == 0
B == 1
C == 2
a == 0
b == 1

\* lines 22-23: the transitions of the example
ExampleTransitions ==
    << [m_originState |-> A, m_destinationState |-> B, m_trigger |-> a, m_action |-> TRUE],
       [m_originState |-> B, m_destinationState |-> C, m_trigger |-> b, m_action |-> TRUE] >>

\* lines 26-34: the calls of the example, in order
ExampleCalls ==
    << Event("IsInitial", 0), Event("Execute", a), Event("Execute", b),
       Event("SetState", A), Event("IsInitial", 0) >>

OffScript == 0 - 1

\* script counts the calls of the example the owning program has completed
\* so far, while it makes exactly those calls and the callbacks (as the
\* example's, which only print) make no call of their own; before and after
\* are the depths of `stack` around the step that produced event ev
ScriptNext(before, after, ev) ==
    IF script = OffScript \/ script >= Len(ExampleCalls) THEN OffScript
    ELSE LET want == ExampleCalls[script + 1]
         IN IF before = 0 /\ after = 1
            THEN (IF ev.op = "action" /\ want.op = "Execute" /\ want.arg = ev.arg
                  THEN script ELSE OffScript)
            ELSE IF ev.op = want.op /\ ev.arg = want.arg /\ after = 0
                    /\ (before = 0 \/ (before = 1 /\ ev.op = "Execute"))
            THEN script + 1
            ELSE OffScript

\* ------------------------------------------------------------ construction
\* line 80: FSM() : m_currentState(Initial), m_transitions() {}
DefaultConstructor ==
    /\ m_currentState = Initial
    /\ m_transitions = EmptyTable
    /\ stack = <<>>
    /\ last = Event("ctor", 0)
    /\ script = OffScript

\* lines 83-85: FSM(collection) { AddTransitions(xi_transitions); }
\* no mem-initializer for m_currentState: it is default-initialised
CollectionConstructor ==
    \E xi_transitions \in Collections(MaxTrans) :
        /\ m_currentState \in Indeterminate
        /\ m_transitions = AddAll(EmptyTable, xi_transitions)
        /\ stack = <<>>
        /\ last = [Event("ctor", 1) EXCEPT !.coll = xi_transitions]
        /\ script = IF xi_transitions = ExampleTransitions THEN 0 ELSE OffScript

Init ==
    /\ DefaultConstructor \/ CollectionConstructor
    /\ LoopsUnused /\ PureUnused

\* -------------------------------------------------------------- operations
\* AddTransitions that also restarts the machine
AddTransitionsReset ==
    /\ stack = <<>>
    /\ \E xi_collection \in Collections(MaxTrans - Size(m_transitions)) :
          /\ m_transitions' = AddAll(m_transitions, xi_collection)
          /\ last' = [Event("AddTransitions", 0) EXCEPT !.coll = xi_collection]
    /\ script' = OffScript
    /\ m_currentState' = Initial
    /\ UNCHANGED stack
    /\ UNCHANGED otherVars

\* lines 88-93
AddTransitions ==
    /\ stack = <<>>
    /\ \E xi_collection \in Collections(MaxTrans - Size(m_transitions)) :
          /\ m_transitions' = AddAll(m_transitions, xi_collection)
          /\ last' = [Event("AddTransitions", 0) EXCEPT !.coll = xi_collection]
    /\ script' = OffScript
    /\ UNCHANGED <<m_currentState, stack>>
    /\ UNCHANGED otherVars

\* line 96
GetState ==
    /\ last' = [Event("GetState", 0) EXCEPT !.val = m_currentState]
    /\ script' = OffScript
    /\ UNCHANGED <<m_currentState, m_transitions, stack>>
    /\ UNCHANGED otherVars

\* SetState accepting only a state some registered transition refers to
SetStateValidated(xi_state) ==
    /\ m_currentState' =
          (IF \E k \in DOMAIN m_transitions : \E i \in 1 .. Len(m_transitions[k]) :
                 xi_state \in {m_transitions[k][i].m_originState,
                               m_transitions[k][i].m_destinationState}
           THEN xi_state ELSE m_currentState)
    /\ last' = Event("SetState", xi_state)
    /\ UNCHANGED <<m_transitions, stack>>
    /\ script' = ScriptNext(Len(stack), Len(stack'), last')
    /\ UNCHANGED otherVars

\* SetState that is a no-op while an action of the instance is running
SetStateGuarded(xi_state) ==
    /\ m_currentState' = (IF stack = <<>> THEN xi_state ELSE m_currentState)
    /\ last' = Event("SetState", xi_state)
    /\ UNCHANGED <<m_transitions, stack>>
    /\ script' = ScriptNext(Len(stack), Len(stack'), last')
    /\ UNCHANGED otherVars

\* line 99
SetState(xi_state) ==
    /\ m_currentState' = xi_state
    /\ last' = Event("SetState", xi_state)
    /\ UNCHANGED <<m_transitions, stack>>
    /\ script' = ScriptNext(Len(stack), Len(stack'), last')
    /\ UNCHANGED otherVars

\* IsInitial taking the initial state to be the first key of the table
IsInitialFirstKey ==
    /\ last' = [Event("IsInitial", 0) EXCEPT !.ret =
                   IF DOMAIN m_transitions = {} THEN m_currentState = Initial
                   ELSE \A k \in DOMAIN m_transitions : m_currentState <= k]
    /\ UNCHANGED <<m_currentState, m_transitions, stack>>
    /\ script' = ScriptNext(Len(stack), Len(stack'), last')
    /\ UNCHANGED otherVars

\* line 102
IsInitial ==
    /\ last' = [Event("IsInitial", 0) EXCEPT !.ret = (m_currentState = Initial)]
    /\ UNCHANGED <<m_currentState, m_transitions, stack>>
    /\ script' = ScriptNext(Len(stack), Len(stack'), last')
    /\ UNCHANGED otherVars

\* what a call event of Execute records of an outcome of Loop
Outcome(op, xi_trigger, from, out) ==
    [Event(op, xi_trigger) EXCEPT !.from = from, !.ret = out.ret,
        !.idx = out.idx, !.fired = out.fired, !.acts = out.acts]

\* Execute looking the state up with m_transitions[m_currentState] instead of
\* find: an absent key is inserted with an empty vector
ExecuteSubscript(xi_trigger) ==
    LET out == Dispatch(m_transitions, m_currentState, xi_trigger)
    IN /\ m_currentState' = out.state
       /\ IF out.pc = "action"
          THEN /\ Len(stack) < MaxDepth
               /\ stack' = Append(stack,
                    [m_trigger |-> xi_trigger, origin |-> m_currentState,
                     idx |-> out.idx, fired |-> out.fired, acts |-> out.acts])
               /\ last' = Outcome("action", xi_trigger, m_currentState, out)
          ELSE /\ stack' = stack
               /\ last' = Outcome("Execute", xi_trigger, m_currentState, out)
       /\ script' = ScriptNext(Len(stack), Len(stack'), last')
       /\ m_transitions' =
             (IF m_currentState \in DOMAIN m_transitions THEN m_transitions
              ELSE [k \in DOMAIN m_transitions \cup {m_currentState} |->
                       IF k = m_currentState THEN <<>> ELSE m_transitions[k]])
       /\ UNCHANGED otherVars

\* lines 110-135, up to the return or to the callback of line 124
Execute(xi_trigger) ==
    LET out == Dispatch(m_transitions, m_currentState, xi_trigger)
    IN /\ m_currentState' = out.state
       /\ IF out.pc = "action"
          THEN /\ Len(stack) < MaxDepth
               /\ stack' = Append(stack,
                    [m_trigger |-> xi_trigger, origin |-> m_currentState,
                     idx |-> out.idx, fired |-> out.fired, acts |-> out.acts])
               /\ last' = Outcome("action", xi_trigger, m_currentState, out)
          ELSE /\ stack' = stack
               /\ last' = Outcome("Execute", xi_trigger, m_currentState, out)
       /\ script' = ScriptNext(Len(stack), Len(stack'), last')
       /\ UNCHANGED m_transitions
       /\ UNCHANGED otherVars

\* the callback of line 124 returns: lines 126-130 of the suspended Execute
ActionReturn ==
    /\ stack # <<>>
    /\ LET f   == stack[Len(stack)]
           out == Body(Find(m_transitions, f.origin), f.m_trigger, f.idx,
                       [state |-> m_currentState, fired |-> f.fired, acts |-> f.acts])
       IN /\ m_currentState' = out.state
          /\ IF out.pc = "action"
             THEN /\ stack' = [stack EXCEPT ![Len(stack)] =
                                  [f EXCEPT !.idx = out.idx, !.fired = out.fired,
                                            !.acts = out.acts]]
                  /\ last' = Outcome("action", f.m_trigger, f.origin, out)
             ELSE /\ stack' = SubSeq(stack, 1, Len(stack) - 1)
                  /\ last' = Outcome("Execute", f.m_trigger, f.origin, out)
    /\ script' = ScriptNext(Len(stack), Len(stack'), last')
    /\ UNCHANGED m_transitions
    /\ UNCHANGED otherVars

Next ==
    \/ AddTransitions
    \/ GetState
    \/ \E xi_state \in State : SetState(xi_state)
    \/ IsInitial
    \/ \E xi_trigger \in Trigger : Execute(xi_trigger)
    \/ ActionReturn

Spec == Init /\ [][Next]_vars

\* ---------------------------------------------------------------- claims
\* the vector registered for origin state s (empty when s is no key)
Registered(s) == IF s \in DOMAIN m_transitions THEN m_transitions[s] ELSE <<>>

\* the positions of Registered(s) whose trigger is t
Matches(s, t) == {i \in 1 .. Len(Registered(s)) : Registered(s)[i].m_trigger = t}

Least(S) == CHOOSE x \in S : \A y \in S : x <= y

Top == stack[Len(stack)]

\* C1: a freshly constructed FSM (default or collection constructor) answers,
\* as the first call made on it, GetState() == Initial and IsInitial() == true.
C1_FreshIsInitial ==
    [][last.op = "ctor" =>
          /\ (last'.op = "GetState" => last'.val = Initial)
          /\ (last'.op = "IsInitial" => last'.ret)]_vars

\* C2: an Execute(trig) called in state A whose first registered match for
\* (A, trig) is {A, B, trig, action} returns true, has invoked the action
\* exactly once (never, when the transition has none) and leaves the current
\* state B.
C2_SuccessfulTransition ==
    (last.op = "Execute" /\ Matches(last.from, last.arg) # {}) =>
        LET T == Registered(last.from)[Least(Matches(last.from, last.arg))]
        IN /\ last.ret
           /\ last.acts = (IF T.m_action THEN 1 ELSE 0)
           /\ m_currentState = T.m_destinationState

\* an Execute with an action has returned true and moved to another state
C2_Witness ==
    /\ last.op = "Execute" /\ last.ret /\ last.acts = 1
    /\ Registered(last.from)[last.idx].m_action
    /\ m_currentState # last.from
    /\ stack = <<>>

\* C3: an Execute whose trigger matches no transition of the current state's
\* (existing) list returns false, leaves the current state as it was and
\* invokes no action.
C3_NoMatch ==
    (/\ last.op = "Execute"
     /\ last.from \in DOMAIN m_transitions
     /\ Matches(last.from, last.arg) = {}) =>
        /\ ~last.ret
        /\ m_currentState = last.from
        /\ last.acts = 0
        /\ last.fired = 0

\* an Execute has returned false in a state that has two transitions or more
C3_Witness ==
    /\ last.op = "Execute" /\ ~last.ret
    /\ last.from \in DOMAIN m_transitions
    /\ Len(m_transitions[last.from]) >= 2

\* C4: with T1 then T2 registered for the same (origin, trigger), every
\* Execute of that trigger from that origin fires T1: the action running is
\* T1's, the destination is T1's, and T2 is never the transition fired.
C4_FirstMatchWins ==
    /\ \A k \in 1 .. Len(stack) :
          Cardinality(Matches(stack[k].origin, stack[k].m_trigger)) >= 2 =>
              stack[k].idx = Least(Matches(stack[k].origin, stack[k].m_trigger))
    /\ (last.op = "Execute" /\ Cardinality(Matches(last.from, last.arg)) >= 2) =>
          LET i1 == Least(Matches(last.from, last.arg))
          IN /\ last.idx = i1
             /\ last.fired = 1
             /\ m_currentState = Registered(last.from)[i1].m_destinationState

\* T1 and T2 differ in destination and in action, and T1 has fired
C4_Witness ==
    /\ last.op = "Execute" /\ last.ret
    /\ Cardinality(Matches(last.from, last.arg)) = 2
    /\ LET l == Registered(last.from)
       IN /\ l[1].m_destinationState # l[2].m_destinationState
          /\ ~l[1].m_action /\ l[2].m_action
          /\ m_currentState = l[1].m_destinationState

\* C5: SetState(X) makes X the current state whatever the table holds, a
\* GetState() that follows it returns X, and SetState invokes no action.
C5_SetStateBypass ==
    [][/\ last'.op = "SetState" =>
              /\ m_currentState' = last'.arg
              /\ stack' = stack
              /\ m_transitions' = m_transitions
       /\ (last.op = "SetState" /\ last'.op = "GetState") =>
              last'.val = last.arg]_vars

\* SetState has set a state that is not Initial and that no registered
\* transition leaves or enters
C5_Witness ==
    /\ last.op = "SetState"
    /\ m_currentState = last.arg
    /\ m_currentState # Initial
    /\ m_transitions # EmptyTable
    /\ \A k \in DOMAIN m_transitions : \A i \in 1 .. Len(m_transitions[k]) :
          /\ m_transitions[k][i].m_originState # m_currentState
          /\ m_transitions[k][i].m_destinationState # m_currentState

\* the table without the transitions registered for origin state c
Without(table, c) == [k \in DOMAIN table \ {c} |-> table[k]]

\* Execute from its entry to its return, the callback (if any) having made
\* no call
Run(table, s, t) ==
    LET out == Dispatch(table, s, t)
    IN IF out.pc = "action"
       THEN Body(Find(table, s), t, out.idx,
                 [state |-> s, fired |-> out.fired, acts |-> out.acts])
       ELSE out

\* C6: the transitions registered for an origin state c other than the state
\* Execute is called in do not affect it: what a completed Execute returned,
\* fired and left as current state, and what Execute would do next for any
\* trigger, are the same with c's transitions removed from the table.
C6_UnrelatedStates ==
    /\ \A c \in State \ {m_currentState} : \A t \in Trigger :
          Dispatch(m_transitions, m_currentState, t)
              = Dispatch(Without(m_transitions, c), m_currentState, t)
    /\ last.op = "Execute" =>
          \A c \in State \ {last.from} :
              LET out == Run(Without(m_transitions, c), last.from, last.arg)
              IN /\ last.ret = out.ret
                 /\ last.idx = out.idx
                 /\ last.acts = out.acts
                 /\ m_currentState = out.state

\* an Execute has fired a transition of one state while another state has a
\* transition registered for the same trigger
C6_Witness ==
    /\ last.op = "Execute" /\ last.ret
    /\ \E c \in DOMAIN m_transitions :
          /\ c # last.from
          /\ c # m_currentState
          /\ Matches(c, last.arg) # {}

\* C7: the header's example: constructed from its two transitions,
\* IsInitial() is true; Execute(a) returns true and the state is B;
\* Execute(b) returns true and the state is C; after SetState(A),
\* IsInitial() is true.
C7_EndToEnd ==
    /\ (script = 1 /\ last.op = "IsInitial") => last.ret
    /\ (script = 2 /\ last.op = "Execute") => (last.ret /\ m_currentState = B)
    /\ (script = 3 /\ last.op = "Execute") => (last.ret /\ m_currentState = C)
    /\ (script = 4) => m_currentState = A
    /\ (script = 5) => last.ret

\* a step in which Execute is called (it returns, or is suspended in a
\* callback); the step in which a callback returns is none
ExecuteCalled ==
    /\ last'.op \in {"Execute", "action"}
    /\ Len(stack') >= Len(stack)

\* C8: while the current state has no outgoing transitions in the table,
\* every Execute called (for any trigger) returns false, invokes nothing and
\* leaves the current state and the table unchanged.
C8_DeadEnd ==
    [][(m_currentState \notin DOMAIN m_transitions /\ ExecuteCalled) =>
          /\ last'.op = "Execute"
          /\ ~last'.ret
          /\ last'.acts = 0
          /\ stack' = stack
          /\ m_currentState' = m_currentState
          /\ m_transitions' = m_transitions]_vars

\* Execute has returned false in a state a transition leads to and none leaves
C8_Witness ==
    /\ last.op = "Execute" /\ ~last.ret
    /\ last.from = m_currentState
    /\ m_currentState \notin DOMAIN m_transitions
    /\ \E k \in DOMAIN m_transitions : \E i \in 1 .. Len(m_transitions[k]) :
          m_transitions[k][i].m_destinationState = m_currentState

\* C9: the action runs before the state is updated: when it is invoked the
\* current state is still the origin, a GetState() it makes first returns
\* the origin, and when it returns the current state becomes the destination.
C9_ActionBeforeUpdate ==
    [][/\ last'.op = "action" =>
              /\ m_currentState' = m_currentState
              /\ m_currentState' = stack'[Len(stack')].origin
       /\ (last.op = "action" /\ last'.op = "GetState") =>
              last'.val = Top.origin
       /\ Len(stack') < Len(stack) =>
              /\ last'.op = "Execute"
              /\ m_currentState' =
                    Registered(Top.origin)[Top.idx].m_destinationState]_vars

\* GetState() called inside the action of a transition to another state has
\* returned the origin
C9_Witness ==
    /\ stack # <<>>
    /\ last.op = "GetState"
    /\ last.val = Top.origin
    /\ Registered(Top.origin)[Top.idx].m_destinationState # Top.origin

\* C10: one Execute invocation fires at most one transition: it invokes at
\* most one action and assigns the current state at most once, to the
\* destination of the transition it fired.
C10_AtMostOne ==
    /\ \A k \in 1 .. Len(stack) : stack[k].acts = 1 /\ stack[k].fired = 0
    /\ last.op = "action" => (last.acts = 1 /\ last.fired = 0)
    /\ last.op = "Execute" =>
          /\ last.fired <= 1
          /\ last.acts <= last.fired
          /\ last.ret <=> (last.fired = 1)
          /\ m_currentState = (IF last.ret
                               THEN Registered(last.from)[last.idx].m_destinationState
                               ELSE last.from)

\* an Execute has fired the first of two matching transitions, and the
\* state it led to has a transition for the same trigger
C10_Witness ==
    /\ last.op = "Execute" /\ last.ret
    /\ Cardinality(Matches(last.from, last.arg)) >= 2
    /\ Matches(m_currentState, last.arg) # {}

\* the transitions of collection coll whose origin is s, in their order
OfOrigin(coll, s) ==
    LET HasOrigin(c) == c.m_originState = s
    IN SelectSeq(coll, HasOrigin)

\* the first transition of the list of s tried for trigger t (0: none)
FirstTried(table, s, t) == Dispatch(table, s, t).idx

\* C11: a constructor and every AddTransitions call leave, for each origin,
\* the list it had followed by the given transitions of that origin in input
\* order (a list is created when absent, none is created otherwise); nothing
\* is dropped, and a (origin, trigger) that already had a match keeps its
\* first match.
C11_AppendInOrder ==
    [][/\ last.op = "ctor" =>
            /\ \A s \in State : Registered(s) = OfOrigin(last.coll, s)
            /\ DOMAIN m_transitions =
                  {last.coll[i].m_originState : i \in 1 .. Len(last.coll)}
       /\ last'.op = "AddTransitions" =>
            /\ \A s \in State :
                  Registered(s)' = Registered(s) \o OfOrigin(last'.coll, s)
            /\ DOMAIN m_transitions' = DOMAIN m_transitions \cup
                  {last'.coll[i].m_originState : i \in 1 .. Len(last'.coll)}
            /\ Size(m_transitions') = Size(m_transitions) + Len(last'.coll)
            /\ \A s \in State : \A t \in Trigger :
                  Matches(s, t) # {} =>
                     FirstTried(m_transitions', s, t)
                        = FirstTried(m_transitions, s, t)]_vars

\* an AddTransitions call made with the machine moved off Initial has appended a
\* second transition for an (origin, trigger) already registered
C11_Witness ==
    /\ last.op = "AddTransitions"
    /\ Len(last.coll) = 1
    /\ m_currentState # Initial
    /\ LET l == Registered(last.coll[1].m_originState)
       IN /\ Len(l) = 2
          /\ l[2] = last.coll[1]
          /\ l[1].m_trigger = l[2].m_trigger
          /\ l[1].m_destinationState = m_currentState
          /\ l[2].m_destinationState # m_currentState

\* C12: after any sequence of calls IsInitial() returns true exactly when
\* the current state equals Initial (the template argument, which no call
\* changes), and it leaves the current state alone; so it is true again once
\* a transition or SetState has brought the machine back to Initial.
C12_IsInitialIff ==
    [][last'.op = "IsInitial" =>
          /\ last'.ret <=> (m_currentState = Initial)
          /\ m_currentState' = m_currentState]_vars

\* the example has run to its end: A -> B -> C, SetState(A), and the
\* IsInitial() that follows has returned true
C12_Witness ==
    /\ script = Len(ExampleCalls)
    /\ last.op = "IsInitial"
    /\ last.ret

\* state x is Initial or the origin or destination of a registered transition
Referenced(x) ==
    \/ x = Initial
    \/ \E k \in DOMAIN m_transitions : \E i \in 1 .. Len(m_transitions[k]) :
          x \in {m_transitions[k][i].m_originState,
                 m_transitions[k][i].m_destinationState}

C14_OnlyExecuteOrSetState ==
    [][/\ m_currentState' # m_currentState =>
              (last'.op = "SetState" \/ (last'.op = "Execute" /\ last'.ret))
       /\ (last'.op = "Execute" /\ ~last'.ret) =>
              m_currentState' = m_currentState]_vars

\* a callback has moved the machine and an Execute it then called has
\* returned false, leaving the state where the callback put it
C14_Witness ==
    /\ stack # <<>>
    /\ last.op = "Execute" /\ ~last.ret
    /\ m_currentState = last.from
    /\ m_currentState # Top.origin

\* C15: for every current state and every trigger Execute completes: it
\* returns a boolean or is calling an action (and returns true after it),
\* and it never throws; with no list for the state and with no match in the
\* list it returns false with the same outcome.
C15_NeverThrows ==
    /\ \A t \in Trigger :
          LET out == Dispatch(m_transitions, m_currentState, t)
          IN /\ out.pc \in {"return", "action"}
             /\ out.ret \in BOOLEAN
             /\ (out.pc = "return" \/ Len(stack) < MaxDepth) => ENABLED Execute(t)
             /\ Matches(m_currentState, t) = {} =>
                   out = [pc |-> "return", ret |-> FALSE, idx |-> 0,
                          state |-> m_currentState, fired |-> 0, acts |-> 0]
    /\ (last.op = "Execute" /\ ~last.ret) =>
          last = [Event("Execute", last.arg) EXCEPT !.from = m_currentState]

\* Execute has returned false in a current state that is no enumerator
C15_Witness ==
    /\ last.op = "Execute" /\ ~last.ret
    /\ last.from \notin State
    /\ m_transitions # EmptyTable

\* the transition a suspended or returned Execute fired
FiredBy(origin, idx) == Registered(origin)[idx]

\* C26: there is no reentrancy protection. Inside the action of a firing
\* transition T (origin A) a SetState(X) sets X at once; an Execute(t) is
\* dispatched against the current state (A, when it is the action's first
\* call) and fires the first match there, entering a further action when
\* that transition has one; and when the action returns, the outer Execute
\* sets the current state to T's destination, whatever the nested calls
\* made it, and returns true.
C26_NoReentrancyProtection ==
    [][/\ (stack # <<>> /\ last'.op = "SetState") =>
              /\ m_currentState' = last'.arg
              /\ stack' = stack
       /\ (stack # <<>> /\ ExecuteCalled) =>
              /\ last'.from = m_currentState
              /\ last.op = "action" => last'.from = Top.origin
              /\ Matches(m_currentState, last'.arg) # {} =>
                    LET T2 == FiredBy(m_currentState,
                                      Least(Matches(m_currentState, last'.arg)))
                    IN IF T2.m_action
                       THEN /\ last'.op = "action"
                            /\ Len(stack') = Len(stack) + 1
                       ELSE /\ last'.ret
                            /\ m_currentState' = T2.m_destinationState
       /\ Len(stack') < Len(stack) =>
              /\ last'.op = "Execute" /\ last'.ret
              /\ last'.from = Top.origin
              /\ m_currentState' = FiredBy(Top.origin, Top.idx).m_destinationState]_vars

\* inside the action of T an Execute dispatched against T's origin has run a
\* further action and returned true, leaving a state that is not T's
\* destination
C26_Witness ==
    /\ Len(stack) = 1
    /\ last.op = "Execute" /\ last.ret /\ last.acts = 1
    /\ last.from = Top.origin
    /\ m_currentState # FiredBy(Top.origin, Top.idx).m_destinationState

\* C27: Execute, SetState, GetState and IsInitial leave the transition table
\* as it is: an Execute from a state with no list adds no key, and a
\* transition that fired is still registered and fires again from its origin.
\* Only AddTransitions changes the table, and it only appends to the lists.
C27_TableFrame ==
    [][/\ last'.op \in {"Execute", "action", "SetState", "GetState", "IsInitial"} =>
              /\ m_transitions' = m_transitions
              /\ DOMAIN m_transitions' = DOMAIN m_transitions
       /\ (last'.op = "Execute" /\ last'.ret) =>
              /\ last'.from \in DOMAIN m_transitions'
              /\ Dispatch(m_transitions', last'.from, last'.arg).idx = last'.idx
       /\ m_transitions' # m_transitions =>
              /\ last'.op = "AddTransitions"
              /\ \A k \in DOMAIN m_transitions :
                    /\ k \in DOMAIN m_transitions'
                    /\ Len(m_transitions[k]) <= Len(m_transitions'[k])
                    /\ m_transitions[k] =
                          SubSeq(m_transitions'[k], 1, Len(m_transitions[k]))]_vars

\* an Execute has fired the only transition of the table and moved to a
\* state that has no list
C27_Witness ==
    /\ last.op = "Execute" /\ last.ret
    /\ DOMAIN m_transitions = {last.from}
    /\ m_currentState \notin DOMAIN m_transitions
    /\ FiredBy(last.from, last.idx).m_trigger = last.arg

\* C28: Execute(t) returns true exactly when the table holds a transition
\* whose origin is the state it was called in and whose trigger is t; for a
\* self-loop (destination = origin) it returns true, has run the action, and
\* the current state is the one it was called in.
C28_ReturnsFired ==
    last.op = "Execute" =>
        /\ last.ret <=> (Matches(last.from, last.arg) # {})
        /\ (/\ Matches(last.from, last.arg) # {}
            /\ FiredBy(last.from, Least(Matches(last.from, last.arg)))
                  .m_destinationState = last.from) =>
              /\ last.ret
              /\ last.acts =
                    (IF FiredBy(last.from, Least(Matches(last.from, last.arg))).m_action
                     THEN 1 ELSE 0)
              /\ m_currentState = last.from

\* a self-loop with an action has fired: true is returned and the state is
\* the one before the call
C28_Witness ==
    /\ stack = <<>>
    /\ last.op = "Execute" /\ last.ret /\ last.acts = 1
    /\ FiredBy(last.from, last.idx).m_destinationState = last.from
    /\ FiredBy(last.from, last.idx).m_action
    /\ m_currentState = last.from

\* ================================================================ irange.h
\* template<int xi_step = 1> struct irange, in a range-based for loop
\*    for (auto i : irange<xi_step>(xi_begin, xi_end)) visit(i);
\* `int` is modelled IntBits wide (two's complement).

\* width of int in the model
IntBits == 7
\* signed overflows of `value += xi_step` followed in one loop
MaxOverflows == 1

IntMin == 0 - 2 ^ (IntBits - 1)
IntMax == 2 ^ (IntBits - 1) - 1
IntRange == IntMin .. IntMax

\* the strides of the header's examples (lines 23-55), the default 1, and -1
Strides == {0 - 3, 0 - 2, 0 - 1, 1, 2, 5}

\* the arguments tried: those of the header's examples and the ends of int
Endpoints == {IntMin, IntMin + 1, 0 - 5, 0 - 1, 0, 1, 3, 4, 13, 17, 19, 20, 21,
              34, 37, 38, IntMax - 1, IntMax}

\* the loops of the example main() (lines 21-59): <<xi_step, xi_begin, xi_end>>
ExampleLoops ==
    { <<0 - 2, 20, 0>>, <<0 - 2, 20, 1>>, <<0 - 2, 20, 3>>, <<0 - 2, 17, 0 - 1>>,
      <<0 - 3, 1, 37>>, <<5, 13, 38>>, <<5, 13, 34>>, <<5, 0 - 5, 19>>,
      <<5, 0 - 5, 21>> }

\* lines 116-121: whether the constructor throws std::out_of_range
Throws(xi_step, mBegin, mEnd) ==
    \/ (xi_step < 0) /\ (mBegin < mEnd)
    \/ (xi_step > 0) /\ (mEnd < mBegin)

\* line 105: Iterator::operator!= (this->value is value, xi_irange is end())
NotEqual(xi_step, value, endValue) ==
    IF xi_step > 0 THEN endValue > value ELSE endValue < value

\* line 99: value += xi_step; a signed overflow is undefined behaviour: the
\* value read afterwards may be any int (the wrapped one among them)
Increment(xi_step, value) ==
    IF value + xi_step \in IntRange THEN {value + xi_step} ELSE IntRange

Overflows(xi_step, value) == value + xi_step \notin IntRange

\* the objects of the other headers are not constructed
FsmUnused ==
    /\ m_currentState = Initial
    /\ m_transitions = EmptyTable
    /\ stack = <<>>
    /\ last = NoEvent
    /\ script = OffScript

\* irange<xi_step>(xi_begin, xi_end) is about to be constructed
InitIrange ==
    /\ FsmUnused /\ sv = Unused /\ ad = Unused /\ PureUnused
    /\ \E xi_step \in Strides : \E xi_begin \in Endpoints : \E xi_end \in Endpoints :
          ir = [pc |-> "construct", xi_step |-> xi_step, mBegin |-> xi_begin,
                mEnd |-> xi_end, value |-> 0, out |-> <<>>, overflows |-> 0]

\* lines 115-122, then begin() of line 125
Construct ==
    /\ ir.pc = "construct"
    /\ ir' = IF Throws(ir.xi_step, ir.mBegin, ir.mEnd)
             THEN [ir EXCEPT !.pc = "thrown"]
             ELSE [ir EXCEPT !.pc = "loop", !.value = ir.mBegin]
    /\ UNCHANGED <<fsmVars, sv, ad, pureVars>>

\* one iteration: it != end() holds, the body visits *it, then ++it
Iterate ==
    /\ ir.pc = "loop"
    /\ NotEqual(ir.xi_step, ir.value, ir.mEnd)
    /\ Overflows(ir.xi_step, ir.value) => ir.overflows < MaxOverflows
    /\ \E v \in Increment(ir.xi_step, ir.value) :
          ir' = [ir EXCEPT !.out = Append(@, ir.value), !.value = v,
                           !.overflows = IF Overflows(ir.xi_step, ir.value)
                                         THEN @ + 1 ELSE @]
    /\ UNCHANGED <<fsmVars, sv, ad, pureVars>>

\* it != end() is false: the loop ends
Leave ==
    /\ ir.pc = "loop"
    /\ ~NotEqual(ir.xi_step, ir.value, ir.mEnd)
    /\ ir' = [ir EXCEPT !.pc = "done"]
    /\ UNCHANGED <<fsmVars, sv, ad, pureVars>>

NextIrange == Construct \/ Iterate \/ Leave

SpecIrange == InitIrange /\ [][NextIrange]_vars

\* Python's range(b, e, s), s # 0, over the mathematical integers
PyLen(start, stop, step) ==
    IF step > 0 THEN (IF start < stop THEN (stop - start + step - 1) \div step ELSE 0)
    ELSE (IF start > stop THEN (start - stop - step - 1) \div (0 - step) ELSE 0)

PyRange(start, stop, step) ==
    [k \in 1 .. PyLen(start, stop, step) |-> start + (k - 1) * step]

IsPrefix(p, q) == Len(p) <= Len(q) /\ p = SubSeq(q, 1, Len(p))

\* C17: for every stride and every begin and end the constructor accepts,
\* the loop visits b, b+s, b+2s, ... in order and stops before the first
\* value that reaches or passes e: the values of Python's range(b, e, s).
C17_PythonRange ==
    /\ ir.pc \in {"loop", "done"} =>
          IsPrefix(ir.out, PyRange(ir.mBegin, ir.mEnd, ir.xi_step))
    /\ ir.pc = "done" =>
          ir.out = PyRange(ir.mBegin, ir.mEnd, ir.xi_step)

\* C18: the constructor throws exactly when s < 0 and b < e, or s > 0 and
\* e < b; so every loop of the example main() is constructed, runs and
\* visits a value.
C18_ThrowsOnlyReversed ==
    ir.pc # "construct" =>
        /\ ir.pc = "thrown" <=>
              (\/ ir.xi_step < 0 /\ ir.mBegin < ir.mEnd
               \/ ir.xi_step > 0 /\ ir.mEnd < ir.mBegin)
        /\ <<ir.xi_step, ir.mBegin, ir.mEnd>> \in ExampleLoops =>
              /\ ir.pc # "thrown"
              /\ ir.pc = "done" => ir.out # <<>>

\* ======================================================= LazyStringSplit.h
\* template<typename STRING, typename DELIMITER> class SplitView, in
\*    for (auto& word : split(src, delimiter)) tokens.emplace_back(word);
\* Strings are sequences of characters; positions count from 0 as in C++.

\* longest source string
MaxSrcLen == 5
\* longest delimiter string
MaxDelimLen == 2

Alphabet == {"a", "b"}
StringsUpTo(n) == UNION {[1 .. k -> Alphabet] : k \in 0 .. n}

\* DELIMITER is the character type of STRING, or a string type; the claim
\* is about non-empty delimiters
Delimiters ==
    [type : {"character"}, chars : [1 .. 1 -> Alphabet]]
    \cup [type : {"STRING"}, chars : StringsUpTo(MaxDelimLen) \ {<<>>}]

\* STRING::npos
npos == 0 - 1

\* the characters of str from position pos, count of them
Substr(str, pos, count) == SubSeq(str, pos + 1, pos + count)

OccursAt(str, d, p) == p + Len(d) <= Len(str) /\ Substr(str, p, Len(d)) = d

\* STRING::find(delimiter, pos): the first occurrence at or after pos
StrFind(str, d, pos) ==
    LET found == {p \in pos .. Len(str) : OccursAt(str, d, p)}
    IN  IF found = {} THEN npos
        ELSE CHOOSE p \in found : \A q \in found : p <= q

\* line 90: if constexpr (sizeof(DELIMITER) == sizeof(character))
SameSize(delimiter) == delimiter.type = "character"

AdvanceOne(m_position, delimiter) == m_position + 1

\* lines 90-94: step over the delimiter that was found
Advance(m_position, delimiter) ==
    IF SameSize(delimiter) THEN m_position + 1
    ELSE m_position + Len(delimiter.chars)

\* a string_view: data() - m_source->data(), and size()
View(pos, count) == [data |-> pos, size |-> count]

\* line 62: iterator()
EndIterator == [m_source |-> FALSE, m_position |-> npos, m_curent |-> View(0, 0)]

\* lines 77-100: iterator::operator++ (m_source: whether it is not nullptr)
PlusPlus(it, src, delimiter) ==
    IF it.m_position = npos THEN [it EXCEPT !.m_source = FALSE]
    ELSE LET last_pos == it.m_position
             found == StrFind(src, delimiter.chars, it.m_position)
         IN  IF found # npos
             THEN [it EXCEPT !.m_curent = View(last_pos, found - last_pos),
                             !.m_position = Advance(found, delimiter)]
             ELSE [it EXCEPT !.m_curent = View(last_pos, Len(src) - last_pos),
                             !.m_position = npos]

\* lines 63-65: iterator(src, delimiter)
BeginIterator(src, delimiter) ==
    PlusPlus([m_source |-> TRUE, m_position |-> 0, m_curent |-> View(0, 0)],
             src, delimiter)

\* lines 108-110: iterator::operator==
IteratorEq(x, y) == x.m_source = y.m_source /\ x.m_position = y.m_position

\* split(src, delimiter) is about to be called
InitSplit ==
    /\ FsmUnused /\ ir = Unused /\ ad = Unused /\ PureUnused
    /\ \E src \in StringsUpTo(MaxSrcLen) : \E delimiter \in Delimiters :
          sv = [pc |-> "split", src |-> src, m_delimiter |-> delimiter,
                it |-> EndIterator, tokens |-> <<>>]

\* lines 156-158 and 125-127: split(), then begin() of the range-for
Begin ==
    /\ sv.pc = "split"
    /\ sv' = [sv EXCEPT !.pc = "loop",
                        !.it = BeginIterator(sv.src, sv.m_delimiter)]
    /\ UNCHANGED <<fsmVars, ir, ad, pureVars>>

\* one iteration: it != end(), the body copies *it out of src, then ++it
NextToken ==
    /\ sv.pc = "loop"
    /\ ~IteratorEq(sv.it, EndIterator)
    /\ sv' = [sv EXCEPT
                !.tokens = Append(@, Substr(sv.src, sv.it.m_curent.data,
                                            sv.it.m_curent.size)),
                !.it = PlusPlus(sv.it, sv.src, sv.m_delimiter)]
    /\ UNCHANGED <<fsmVars, ir, ad, pureVars>>

\* it == end(): the loop ends
EndOfTokens ==
    /\ sv.pc = "loop"
    /\ IteratorEq(sv.it, EndIterator)
    /\ sv' = [sv EXCEPT !.pc = "done"]
    /\ UNCHANGED <<fsmVars, ir, ad, pureVars>>

NextSplit == Begin \/ NextToken \/ EndOfTokens

SpecSplit == InitSplit /\ [][NextSplit]_vars

RECURSIVE Join(_, _)
\* the tokens with the delimiter between each two
Join(tokens, d) ==
    IF tokens = <<>> THEN <<>>
    ELSE IF Len(tokens) = 1 THEN tokens[1]
    ELSE tokens[1] \o d \o Join(Tail(tokens), d)

RECURSIVE CountFrom(_, _, _)
\* the non-overlapping occurrences of d in str at or after pos, left to right
CountFrom(str, d, pos) ==
    IF pos + Len(d) > Len(str) THEN 0
    ELSE IF OccursAt(str, d, pos) THEN 1 + CountFrom(str, d, pos + Len(d))
    ELSE CountFrom(str, d, pos + 1)

\* d occurs in str at position p and nowhere before
FirstAt(str, d, p) ==
    OccursAt(str, d, p) /\ \A q \in 0 .. p - 1 : ~OccursAt(str, d, q)

Contains(str, d) == \E q \in 0 .. Len(str) : OccursAt(str, d, q)

\* C19: iterating split(src, delim), delim not empty, yields in order the
\* maximal substrings of src between consecutive occurrences of delim: one
\* token more than there are non-overlapping occurrences (empty tokens
\* included), each token but the last ended by the first occurrence of delim
\* after its start and the last holding none, the tokens joined with delim
\* giving src; and src is never modified.
C19_SplitTokens ==
    [][/\ sv'.pc # "split" => sv'.src = sv.src
       /\ sv'.pc = "done" =>
            LET d == sv'.m_delimiter.chars
                n == Len(sv'.tokens)
            IN  /\ n = CountFrom(sv'.src, d, 0) + 1
                /\ Join(sv'.tokens, d) = sv'.src
                /\ \A i \in 1 .. n - 1 :
                      FirstAt(sv'.tokens[i] \o d, d, Len(sv'.tokens[i]))
                /\ ~Contains(sv'.tokens[n], d)]_vars

\* a two-character delimiter split a source into an empty and a non-empty
\* token and more
C19_Witness ==
    /\ sv.pc = "done"
    /\ Len(sv.m_delimiter.chars) = 2
    /\ Len(sv.tokens) >= 3
    /\ \E i \in 1 .. Len(sv.tokens) : sv.tokens[i] = <<>>
    /\ \E i \in 1 .. Len(sv.tokens) : sv.tokens[i] # <<>>

\* ========================================================= async_deferred.h
\* template<typename FUNC> auto async_deferred(FUNC&& xi_function): a caller
\* and the detached thread that runs the packaged task.  xi_function returns
\* a value of Results after `work` steps of its own.

\* longest run of xi_function, in steps of the detached thread
MaxWork == 3
\* steps the caller takes after it let go of the future
MaxCallerSteps == 3

Results == {"x", "y"}
NoResult == "none"

\* async_deferred(xi_function) is about to be called
InitAsync ==
    /\ FsmUnused /\ ir = Unused /\ sv = Unused /\ PureUnused
    /\ \E result \in Results : \E work \in 1 .. MaxWork :
          ad = [pc |-> "call", xi_function |-> [result |-> result, work |-> work],
                thread |-> "none", remaining |-> 0, runs |-> 0, completed |-> 0,
                ready |-> FALSE, value |-> NoResult,
                obtained |-> NoResult, steps |-> 0]

\* lines 5-10: the packaged task and its shared state are made, the future is
\* taken, a thread is started with the task and detached, the future returned
AsyncDeferred ==
    /\ ad.pc = "call"
    /\ ad' = [ad EXCEPT !.pc = "holding", !.thread = "started"]
    /\ UNCHANGED <<fsmVars, ir, sv, pureVars>>

\* the detached thread invokes the task: xi_function begins
TaskInvoke ==
    /\ ad.thread = "started"
    /\ ad' = [ad EXCEPT !.thread = "running", !.runs = @ + 1,
                        !.remaining = ad.xi_function.work]
    /\ UNCHANGED <<fsmVars, ir, sv, pureVars>>

\* xi_function runs on; on its return the task stores the result in the
\* shared state, makes it ready, and the thread ends
TaskRun ==
    /\ ad.thread = "running"
    /\ ad' = IF ad.remaining > 1
             THEN [ad EXCEPT !.remaining = @ - 1]
             ELSE [ad EXCEPT !.remaining = 0, !.thread = "finished",
                             !.completed = @ + 1, !.ready = TRUE,
                             !.value = ad.xi_function.result]
    /\ UNCHANGED <<fsmVars, ir, sv, pureVars>>

\* ~future() of a future that std::async made: waits for the shared state
DtorWaits(shared) == shared.ready

\* ~future() of a future taken from a packaged_task: releases the shared
\* state and returns
DtorReturns(shared) == TRUE

\* the caller destroys the future
DestroyFuture ==
    /\ ad.pc = "holding"
    /\ DtorReturns(ad)
    /\ ad' = [ad EXCEPT !.pc = "dropped"]
    /\ UNCHANGED <<fsmVars, ir, sv, pureVars>>

\* the caller goes on after the future is gone
Proceed ==
    /\ ad.pc = "dropped"
    /\ ad.steps < MaxCallerSteps
    /\ ad' = [ad EXCEPT !.steps = @ + 1]
    /\ UNCHANGED <<fsmVars, ir, sv, pureVars>>

\* the caller calls future.get()
FutureGet ==
    /\ ad.pc = "holding"
    /\ ad' = [ad EXCEPT !.pc = "waiting"]
    /\ UNCHANGED <<fsmVars, ir, sv, pureVars>>

\* future.get() returns once the shared state is ready
FutureGetReturn ==
    /\ ad.pc = "waiting"
    /\ ad.ready
    /\ ad' = [ad EXCEPT !.pc = "got", !.obtained = ad.value]
    /\ UNCHANGED <<fsmVars, ir, sv, pureVars>>

NextAsync ==
    \/ AsyncDeferred \/ TaskInvoke \/ TaskRun
    \/ DestroyFuture \/ Proceed \/ FutureGet \/ FutureGetReturn

\* the detached thread is scheduled until its task returns, and a caller
\* blocked in get() is resumed when the result is ready
SpecAsync ==
    /\ InitAsync /\ [][NextAsync]_vars
    /\ WF_vars(TaskInvoke) /\ WF_vars(TaskRun) /\ WF_vars(FutureGetReturn)

CharBits == 2

CharRank == 1
IntRank == 3
LongRank == 4
LongLongRank == 5
Ranks == CharRank .. LongLongRank

IntegerTypes == [rank : Ranks, sgn : BOOLEAN]

Width(T) == CharBits + (IF T.rank = LongLongRank THEN LongRank ELSE T.rank) - 1

\* std::numeric_limits<T>::min() .. max()
ValuesOf(T) ==
    IF T.sgn THEN (0 - 2 ^ (Width(T) - 1)) .. (2 ^ (Width(T) - 1) - 1)
    ELSE 0 .. (2 ^ Width(T) - 1)

\* static_cast<T>(v): the value of T congruent to v modulo 2^Width(T)
StaticCast(T, v) ==
    IF T.sgn
    THEN ((v + 2 ^ (Width(T) - 1)) % (2 ^ Width(T))) - 2 ^ (Width(T) - 1)
    ELSE v % (2 ^ Width(T))

\* std::make_signed<T>::type, std::make_unsigned<T>::type
MakeSigned(T) == [T EXCEPT !.sgn = TRUE]
MakeUnsigned(T) == [T EXCEPT !.sgn = FALSE]

\* integral promotion: a type below int becomes int (int holds its values)
Promote(T) == IF T.rank < IntRank THEN [rank |-> IntRank, sgn |-> TRUE] ELSE T

\* std::common_type<T1, T2>::type: the usual arithmetic conversions
CommonType(T1, T2) ==
    LET P1 == Promote(T1)
        P2 == Promote(T2)
        S == IF P1.sgn THEN P1 ELSE P2
        U == IF P1.sgn THEN P2 ELSE P1
    IN  IF P1 = P2 THEN P1
        ELSE IF P1.sgn = P2.sgn THEN (IF P1.rank > P2.rank THEN P1 ELSE P2)
        ELSE IF U.rank >= S.rank THEN U
        ELSE IF ValuesOf(U) \subseteq ValuesOf(S) THEN S
        ELSE MakeUnsigned(S)

\* std::is_same<make_signed<Integral1>::type, make_signed<Integral2>::type>
SameBase(T1, T2) == MakeSigned(T1) = MakeSigned(T2)

NewIntegralCommon(T, Common) == Common

\* lines 63-68: the integral of T's own sign with the common size
NewIntegral(T, Common) ==
    IF T.sgn THEN MakeSigned(Common) ELSE MakeUnsigned(Common)

\* lines 20-22: the built-in comparison of two values of one type
BuiltinCompare(lhs, rhs) ==
    IF lhs < rhs THEN 0 - 1 ELSE IF lhs > rhs THEN 1 ELSE 0

RECURSIVE detail_integral_compare(_, _, _, _)
\* lines 13-71: the overload the enable_if conditions select, and its body
detail_integral_compare(T1, T2, lhs, rhs) ==
    IF T1.sgn = T2.sgn /\ SameBase(T1, T2)
    THEN BuiltinCompare(lhs, rhs)
    ELSE IF T1.sgn = T2.sgn
    THEN LET Common == CommonType(T1, T2)
         IN  detail_integral_compare(Common, Common, StaticCast(Common, lhs),
                                     StaticCast(Common, rhs))
    ELSE IF T1.sgn /\ ~T2.sgn /\ SameBase(T1, T2)
    THEN IF lhs < 0 THEN 0 - 1
         ELSE detail_integral_compare(MakeUnsigned(T1), MakeUnsigned(T2),
                                      StaticCast(MakeUnsigned(T1), lhs),
                                      StaticCast(MakeUnsigned(T2), rhs))
    ELSE IF ~T1.sgn /\ T2.sgn /\ SameBase(T1, T2)
    THEN 0 - detail_integral_compare(T2, T1, rhs, lhs)
    ELSE LET Common == CommonType(T1, T2)
             NewIntegral1 == NewIntegral(T1, Common)
             NewIntegral2 == NewIntegral(T2, Common)
         IN  detail_integral_compare(NewIntegral1, NewIntegral2,
                                     StaticCast(NewIntegral1, lhs),
                                     StaticCast(NewIntegral2, rhs))

\* lines 80-83
integral_compare(T1, T2, lhs, rhs) == detail_integral_compare(T1, T2, lhs, rhs)

\* integral_compare(lhs, rhs) is about to be called
InitCompare ==
    /\ FsmUnused /\ LoopsUnused
    /\ dc = Unused /\ es = Unused /\ rd = Unused /\ rx = Unused
    /\ \E T1 \in IntegerTypes : \E T2 \in IntegerTypes :
       \E lhs \in ValuesOf(T1) : \E rhs \in ValuesOf(T2) :
          ic = [pc |-> "call", Integral1 |-> T1, Integral2 |-> T2,
                lhs |-> lhs, rhs |-> rhs, ret |-> 0, swapped |-> 0]

\* the call, and the call with the arguments exchanged
IntegralCompare ==
    /\ ic.pc = "call"
    /\ ic' = [ic EXCEPT
                !.pc = "done",
                !.ret = integral_compare(ic.Integral1, ic.Integral2, ic.lhs, ic.rhs),
                !.swapped = integral_compare(ic.Integral2, ic.Integral1, ic.rhs, ic.lhs)]
    /\ UNCHANGED <<fsmVars, loopVars, dc, es, rd, rx>>

NextCompare == IntegralCompare

SpecCompare == InitCompare /\ [][NextCompare]_vars

\* C21: for integers of any signedness and width integral_compare(lhs, rhs)
\* is -1, 0 or 1 as lhs is less than, equal to or greater than rhs by
\* mathematical value, and integral_compare(a, b) = -integral_compare(b, a).
C21_MathematicalOrder ==
    ic.pc = "done" =>
        /\ ic.ret = (IF ic.lhs < ic.rhs THEN 0 - 1 ELSE IF ic.lhs = ic.rhs THEN 0 ELSE 1)
        /\ ic.ret = 0 - ic.swapped

\* a negative signed char was compared with an unsigned int above INT_MAX
C21_Witness ==
    /\ ic.pc = "done"
    /\ ic.Integral1 = [rank |-> CharRank, sgn |-> TRUE] /\ ic.lhs < 0
    /\ ic.Integral2 = [rank |-> IntRank, sgn |-> FALSE]
    /\ ic.rhs \notin ValuesOf(MakeSigned(ic.Integral2))
    /\ ic.ret = 0 - 1

\* ============================================================ Dictionary.h
\* namespace CompileTimeDictionary: a Dictionary<Entrys...> is the sequence of
\* its entries; a metafunction yields a value, or is ill-formed (the program
\* does not compile).

\* most entries of a dictionary
MaxEntries == 3

\* the template arguments K, V, I tried (from the example, lines 119-144)
DictInts == {0, 1, 4}
Queries == DictInts \cup {37}

\* line 16: template<int K, int V> struct Entry
Entry == [Key : DictInts, Value : DictInts]
\* line 17: template<typename ...Entrys> struct Dictionary
Dictionaries == UNION {[1 .. n -> Entry] : n \in 0 .. MaxEntries}

IllFormed == [ok |-> FALSE]
Value(v) == [ok |-> TRUE, value |-> v]

\* line 31: size<Dictionary<B...>>::Value
size(M) == Value(Len(M))

RECURSIVE GetValueFromKeyLast(_, _)
GetValueFromKeyLast(I, M) ==
    IF M = <<>> THEN IllFormed
    ELSE IF GetValueFromKeyLast(I, Tail(M)).ok THEN GetValueFromKeyLast(I, Tail(M))
    ELSE IF I = M[1].Key THEN Value(M[1].Value) ELSE IllFormed

RECURSIVE GetValueFromKeyType(_, _)
\* lines 41-49: GetValueFromKey<I, M>::type: Identity<A>::type if I == A::Key,
\* else the type of the rest; void::type and an empty dictionary are ill-formed
GetValueFromKeyType(I, M) ==
    IF M = <<>> THEN IllFormed
    ELSE IF I = M[1].Key THEN [ok |-> TRUE, type |-> M[1]]
    ELSE IF Len(M) = 1 THEN IllFormed
    ELSE GetValueFromKeyType(I, Tail(M))

\* lines 45, 50, 52: enum { value = type::Value }
GetValueFromKey(I, M) ==
    IF GetValueFromKeyType(I, M).ok
    THEN Value(GetValueFromKeyType(I, M).type.Value) ELSE IllFormed

RECURSIVE GetKeyFromValueType(_, _)
\* lines 61-69: GetKeyFromValue<I, M>::type
GetKeyFromValueType(I, M) ==
    IF M = <<>> THEN IllFormed
    ELSE IF I = M[1].Value THEN [ok |-> TRUE, type |-> M[1]]
    ELSE IF Len(M) = 1 THEN IllFormed
    ELSE GetKeyFromValueType(I, Tail(M))

\* lines 65, 70, 72: enum { value = type::Key }
GetKeyFromValue(I, M) ==
    IF GetKeyFromValueType(I, M).ok
    THEN Value(GetKeyFromValueType(I, M).type.Key) ELSE IllFormed

RECURSIVE ContainsKey(_, _)
\* lines 81-88
ContainsKey(I, M) ==
    IF M = <<>> THEN IllFormed
    ELSE IF Len(M) = 1 THEN Value(I = M[1].Key)
    ELSE Value((I = M[1].Key) \/ ContainsKey(I, Tail(M)).value)

RECURSIVE ContainsValue(_, _)
\* lines 97-104
ContainsValue(I, M) ==
    IF M = <<>> THEN IllFormed
    ELSE IF Len(M) = 1 THEN Value(I = M[1].Value)
    ELSE Value((I = M[1].Value) \/ ContainsValue(I, Tail(M)).value)

\* a dictionary M and a template argument I are about to be used
InitDictionary ==
    /\ FsmUnused /\ LoopsUnused
    /\ ic = Unused /\ es = Unused /\ rd = Unused /\ rx = Unused
    /\ \E M \in Dictionaries : \E I \in Queries :
          dc = [pc |-> "declared", M |-> M, I |-> I]

\* the metafunctions are instantiated with I and M
Instantiate ==
    /\ dc.pc = "declared"
    /\ dc' = [pc |-> "instantiated", M |-> dc.M, I |-> dc.I,
              size |-> size(dc.M),
              value |-> GetValueFromKey(dc.I, dc.M),
              key |-> GetKeyFromValue(dc.I, dc.M),
              back |-> IF GetValueFromKey(dc.I, dc.M).ok
                       THEN GetKeyFromValue(GetValueFromKey(dc.I, dc.M).value, dc.M)
                       ELSE IllFormed,
              containsKey |-> ContainsKey(dc.I, dc.M),
              containsValue |-> ContainsValue(dc.I, dc.M)]
    /\ UNCHANGED <<fsmVars, loopVars, ic, es, rd, rx>>

NextDictionary == Instantiate

SpecDictionary == InitDictionary /\ [][NextDictionary]_vars

\* the positions of M whose key, whose value is I
KeyAt(M, I) == {i \in 1 .. Len(M) : M[i].Key = I}
ValueAt(M, I) == {i \in 1 .. Len(M) : M[i].Value = I}
Distinct(M) ==
    \A i, j \in 1 .. Len(M) :
        i # j => M[i].Key # M[j].Key /\ M[i].Value # M[j].Value

\* C22: GetValueFromKey<k> is the value of the first entry whose key is k,
\* GetKeyFromValue<v> the key of the first entry whose value is v; with
\* distinct keys and distinct values GetKeyFromValue<GetValueFromKey<k>> = k;
\* ContainsKey / ContainsValue are true exactly for the keys / values
\* present; size is the number of entries.
C22_Bidirectional ==
    dc.pc = "instantiated" =>
        /\ dc.size = Value(Len(dc.M))
        /\ KeyAt(dc.M, dc.I) # {} =>
              dc.value = Value(dc.M[Least(KeyAt(dc.M, dc.I))].Value)
        /\ ValueAt(dc.M, dc.I) # {} =>
              dc.key = Value(dc.M[Least(ValueAt(dc.M, dc.I))].Key)
        /\ (Distinct(dc.M) /\ KeyAt(dc.M, dc.I) # {}) => dc.back = Value(dc.I)
        /\ dc.containsKey = Value(TRUE) <=> KeyAt(dc.M, dc.I) # {}
        /\ dc.containsValue = Value(TRUE) <=> ValueAt(dc.M, dc.I) # {}
        /\ dc.M # <<>> => dc.containsKey.ok /\ dc.containsValue.ok

\* a dictionary of distinct keys and values was queried by its last key, and
\* the key is some entry's value too
C22_Witness ==
    /\ dc.pc = "instantiated"
    /\ Len(dc.M) = 3 /\ Distinct(dc.M)
    /\ dc.M[3].Key = dc.I /\ dc.M[1].Value = dc.I
    /\ dc.back = Value(dc.I)
    /\ dc.key = Value(dc.M[1].Key)

\* ======================================================= EncryptedString.h
\* EncryptString(str) followed by Decrypt().  A char and a std::uint8_t have
\* ByteBits bits, int and std::uint32_t four times as many; a char is held as
\* its bit pattern 0 .. 2^ByteBits - 1, and whether char is signed is the
\* implementation's choice.

\* width of char and std::uint8_t in the model
ByteBits == 3

WordBits == 4 * ByteBits
Bytes == 0 .. (2 ^ ByteBits - 1)

\* the characters of the literals tried: a small one and one with the top bit
LiteralChars == {1, 2 ^ ByteBits - 1}
\* the literals tried: up to 2^ByteBits - 1 characters
Literals == UNION {[1 .. n -> LiteralChars] : n \in 0 .. (2 ^ ByteBits - 1)}

\* the value of a char as an int
IntOfChar(chr, charSigned) ==
    IF charSigned /\ chr >= 2 ^ (ByteBits - 1) THEN chr - 2 ^ ByteBits ELSE chr

\* the two's complement bit pattern of an int / a std::uint32_t
Word(v) == v % (2 ^ WordBits)

\* conversion to char: the low bits
CharOf(v) == v % (2 ^ ByteBits)

\* ++i of a std::uint8_t
Uint8Next(i) == (i + 1) % (2 ^ ByteBits)

RECURSIVE BitXor(_, _, _)
\* a ^ b on patterns of n bits
BitXor(x, y, n) ==
    IF n = 0 THEN 0
    ELSE (((x % 2) + (y % 2)) % 2) + 2 * BitXor(x \div 2, y \div 2, n - 1)

\* lines 59-61: chr, RandomCharacter::value and id are promoted to int
Encryption(chr, id, random, charSigned) ==
    CharOf(BitXor(Word(IntOfChar(chr, charSigned)),
                  Word(IntOfChar(random, charSigned) + id), WordBits))

\* lines 64-66: id is a std::uint32_t, so the sum and the xor are unsigned
Decryption(chr, id, random, charSigned) ==
    CharOf(BitXor(Word(IntOfChar(chr, charSigned)),
                  Word(Word(IntOfChar(random, charSigned)) + id), WordBits))

\* line 107: Ids... = 0 .. sizeof(str) - 1, the terminating '\0' included
NumIds(str) == Len(str) + 1

\* EncryptString(str) is about to be evaluated; RandomCharacter::value depends
\* on __TIME__
InitEncrypted ==
    /\ FsmUnused /\ LoopsUnused
    /\ ic = Unused /\ dc = Unused /\ rd = Unused /\ rx = Unused
    /\ \E str \in Literals : \E random \in Bytes : \E charSigned \in BOOLEAN :
          es = [pc |-> "literal", str |-> str, random |-> random,
                charSigned |-> charSigned, m_string |-> <<>>, i |-> 0]

\* line 93: m_string{ Logic::Encryption(str[Ids], Ids) ... }, the last
\* element of m_string zero
EncryptString ==
    /\ es.pc = "literal"
    /\ es' = [es EXCEPT
                !.pc = "constructed",
                !.m_string =
                    [k \in 1 .. NumIds(es.str) + 1 |->
                        IF k <= Len(es.str)
                        THEN Encryption(es.str[k], k - 1, es.random, es.charSigned)
                        ELSE IF k = NumIds(es.str)
                        THEN Encryption(0, k - 1, es.random, es.charSigned)
                        ELSE 0]]
    /\ UNCHANGED <<fsmVars, loopVars, ic, dc, rd, rx>>

\* line 97-98: Decrypt() is called: std::uint8_t i{}
Decrypt ==
    /\ es.pc = "constructed"
    /\ es' = [es EXCEPT !.pc = "decrypting", !.i = 0]
    /\ UNCHANGED <<fsmVars, loopVars, ic, dc, rd, rx>>

\* lines 98-100: i < sizeof...(Ids), the body, ++i
DecryptLoop ==
    /\ es.pc = "decrypting"
    /\ es.i < NumIds(es.str)
    /\ es' = [es EXCEPT
                !.m_string[es.i + 1] =
                    Decryption(@, es.i, es.random, es.charSigned),
                !.i = Uint8Next(@)]
    /\ UNCHANGED <<fsmVars, loopVars, ic, dc, rd, rx>>

\* lines 101-102: the loop is left, the terminator written, m_string returned
DecryptReturn ==
    /\ es.pc = "decrypting"
    /\ ~(es.i < NumIds(es.str))
    /\ es' = [es EXCEPT !.pc = "returned", !.m_string[NumIds(es.str) + 1] = 0]
    /\ UNCHANGED <<fsmVars, loopVars, ic, dc, rd, rx>>

NextEncrypted == EncryptString \/ Decrypt \/ DecryptLoop \/ DecryptReturn

\* a call that can go on does go on
SpecEncrypted ==
    InitEncrypted /\ [][NextEncrypted]_vars /\ WF_vars(NextEncrypted)

\* the characters of a char array up to its first '\0'
RECURSIVE CString(_)
CString(m) ==
    IF m = <<>> \/ Head(m) = 0 THEN <<>> ELSE <<Head(m)>> \o CString(Tail(m))

\* C23: for every literal s of up to 2^ByteBits - 1 (255) characters,
\* EncryptedString constructed from s and decrypted once returns exactly s,
\* null-terminated; Decryption(Encryption(c, i), i) = c for every character
\* c and index i.
C23_RoundTrip ==
    /\ [](es.pc = "returned" => CString(es.m_string) = es.str)
    /\ [](es.pc = "constructed" =>
            \A c \in Bytes : \A id \in Bytes :
                Decryption(Encryption(c, id, es.random, es.charSigned), id,
                           es.random, es.charSigned) = c)
    /\ (es.pc = "decrypting") ~> (es.pc = "returned")

\* ============================================================ expand_stl.h
\* reduce(policy, init, op, containers...) and reduce(init, op, values...)
\* for an associative and commutative binary operation on integers.

\* most containers (or values of a pack) passed to one call
MaxContainers == 2
\* most elements of a container
MaxElements == 2

\* the values of T tried
Elements == {0, 1, 2}
\* the operations tried, all associative and commutative
Operations == {"plus", "max"}

Apply(xi_operation, x, y) ==
    IF xi_operation = "plus" THEN x + y ELSE IF x > y THEN x ELSE y

Containers == UNION {[1 .. n -> Elements] : n \in 0 .. MaxElements}

RECURSIVE StdReduce(_, _, _)
\* std::reduce(policy, first, last, init, op) for such an operation: init
\* combined with every element of the range
StdReduce(range, xi_init, xi_operation) ==
    IF range = <<>> THEN xi_init
    ELSE StdReduce(Tail(range), Apply(xi_operation, xi_init, Head(range)),
                   xi_operation)

\* lines 46-52: every container is reduced from xi_init, and the list of the
\* results is reduced from xi_init
reduce(xi_init, xi_operation, xi_containers) ==
    LET reduced_containers ==
            [k \in 1 .. Len(xi_containers) |->
                StdReduce(xi_containers[k], xi_init, xi_operation)]
    IN  StdReduce(reduced_containers, xi_init, xi_operation)

\* lines 54-57: the pack becomes one std::initializer_list<T>
reduce_pack(xi_init, xi_operation, xi_values) ==
    reduce(xi_init, xi_operation, <<xi_values>>)

\* reduce is about to be called, with containers or with a pack of values
InitReduce ==
    /\ FsmUnused /\ LoopsUnused
    /\ ic = Unused /\ dc = Unused /\ es = Unused /\ rx = Unused
    /\ \E xi_init \in Elements : \E xi_operation \in Operations :
          \/ \E n \in 0 .. MaxContainers : \E cs \in [1 .. n -> Containers] :
                rd = [pc |-> "call", overload |-> "containers", xi_init |-> xi_init,
                      xi_operation |-> xi_operation, xi_containers |-> cs,
                      ret |-> 0]
          \/ \E n \in 1 .. MaxContainers : \E vs \in [1 .. n -> Elements] :
                rd = [pc |-> "call", overload |-> "pack", xi_init |-> xi_init,
                      xi_operation |-> xi_operation, xi_containers |-> <<vs>>,
                      ret |-> 0]

\* lines 46-52
Reduce ==
    /\ rd.pc = "call" /\ rd.overload = "containers"
    /\ rd' = [rd EXCEPT !.pc = "done",
                        !.ret = reduce(rd.xi_init, rd.xi_operation, rd.xi_containers)]
    /\ UNCHANGED <<fsmVars, loopVars, ic, dc, es, rx>>

\* lines 54-57
ReducePack ==
    /\ rd.pc = "call" /\ rd.overload = "pack"
    /\ rd' = [rd EXCEPT !.pc = "done",
                        !.ret = reduce_pack(rd.xi_init, rd.xi_operation,
                                            rd.xi_containers[1])]
    /\ UNCHANGED <<fsmVars, loopVars, ic, dc, es, rx>>

NextReduce == Reduce \/ ReducePack

SpecReduce == InitReduce /\ [][NextReduce]_vars

RECURSIVE Concatenation(_)
Concatenation(cs) ==
    IF cs = <<>> THEN <<>> ELSE Head(cs) \o Concatenation(Tail(cs))

\* C24: for an associative and commutative op, reduce(policy, init, op,
\* c1, ..., cn) equals std::reduce over the concatenation of c1..cn from
\* init: init enters the result exactly once, whatever its value.
C24_InitOnce ==
    rd.pc = "done" =>
        rd.ret = StdReduce(Concatenation(rd.xi_containers), rd.xi_init,
                           rd.xi_operation)

\* ============================================================== Reactive.h
\* namespace React: components made by map, filter and fold, joined with
\* operator |, and a collection streamed into the chain with operator >>.
\* Every component carries the position it was written at (id), and every
\* call of its onNext / onEnd is recorded under that position.

\* most components of a chain
MaxStages == 4
\* most elements of the collection
MaxValues == 3

\* the elements tried
StreamValues == {1, 2, 3}
Collections3 == UNION {[1 .. n -> StreamValues] : n \in 0 .. MaxValues}

\* the components of the header's example (lines 12-15)
ComponentNames == {"square", "keep_even", "sum", "output"}

\* line 67: Last<int>()
LastComponent == [kind |-> "Last"]

\* lines 99, 133, 170: filter(f), map(f), fold(xi_accumulate, f)
Component(name, id) ==
    IF name = "keep_even"
    THEN [kind |-> "Filter", m_predicate |-> name, id |-> id, m_next |-> LastComponent]
    ELSE IF name = "sum"
    THEN [kind |-> "Fold", m_function |-> name, id |-> id, m_accumulate |-> 0,
          m_next |-> LastComponent]
    ELSE [kind |-> "Map", m_function |-> name, id |-> id, m_next |-> LastComponent]

\* the functions of lines 12-15
MapFunction(m_function, v) == IF m_function = "square" THEN v * v ELSE 0
Predicate(m_predicate, v) == v % 2 = 0
FoldFunction(m_function, acu, v) == acu + v

PipeDrop(m, n) == [m EXCEPT !.m_next = n]

RECURSIVE Pipe(_, _)
\* lines 103-104, 137-138, 174-175: operator | (m, n)
Pipe(m, n) ==
    IF m.m_next = LastComponent THEN [m EXCEPT !.m_next = n]
    ELSE [m EXCEPT !.m_next = Pipe(m.m_next, n)]

RECURSIVE PipeAll(_, _)
\* c1 | c2 | ... | cn associates to the left
PipeAll(components, n) ==
    IF n = 1 THEN components[1]
    ELSE Pipe(PipeAll(components, n - 1), components[n])

OnNextCall(v) == [call |-> "onNext", v |-> v]
OnEndCall == [call |-> "onEnd", v |-> 0]

Record(calls, comp, c) == [calls EXCEPT ![comp.id] = Append(@, c)]

RECURSIVE onNext(_, _, _)
\* lines 68, 89-91, 123-125, 159-161: the component after the call, and the
\* calls recorded
onNext(comp, v, calls) ==
    IF comp.kind = "Last" THEN [comp |-> comp, calls |-> calls]
    ELSE LET seen == Record(calls, comp, OnNextCall(v))
         IN  IF comp.kind = "Filter"
             THEN IF Predicate(comp.m_predicate, v)
                  THEN LET r == onNext(comp.m_next, v, seen)
                       IN  [comp |-> [comp EXCEPT !.m_next = r.comp],
                            calls |-> r.calls]
                  ELSE [comp |-> comp, calls |-> seen]
             ELSE IF comp.kind = "Map"
             THEN LET r == onNext(comp.m_next,
                                  MapFunction(comp.m_function, v), seen)
                  IN  [comp |-> [comp EXCEPT !.m_next = r.comp],
                       calls |-> r.calls]
             ELSE [comp |-> [comp EXCEPT !.m_accumulate =
                                FoldFunction(comp.m_function, @, v)],
                   calls |-> seen]

RECURSIVE onEnd(_, _)
\* lines 69, 93-95, 127-129, 163-166
onEnd(comp, calls) ==
    IF comp.kind = "Last" THEN [comp |-> comp, calls |-> calls]
    ELSE LET seen == Record(calls, comp, OnEndCall)
         IN  IF comp.kind = "Fold"
             THEN LET r == onNext(comp.m_next, comp.m_accumulate, seen)
                      e == onEnd(r.comp, r.calls)
                  IN  [comp |-> [comp EXCEPT !.m_next = e.comp],
                       calls |-> e.calls]
             ELSE LET e == onEnd(comp.m_next, seen)
                  IN  [comp |-> [comp EXCEPT !.m_next = e.comp],
                       calls |-> e.calls]

\* the components and the collection are declared
InitReactive ==
    /\ FsmUnused /\ LoopsUnused
    /\ ic = Unused /\ dc = Unused /\ es = Unused /\ rd = Unused
    /\ \E n \in 1 .. MaxStages : \E names \in [1 .. n -> ComponentNames] :
       \E xi_collection \in Collections3 :
          rx = [pc |-> "declared", names |-> names,
                xi_collection |-> xi_collection,
                xi_reactive |-> LastComponent, sent |-> 0,
                calls |-> [k \in 1 .. n |-> <<>>]]

\* auto chain = c1 | c2 | ... | cn;  then collection >> chain is entered
Compose ==
    /\ rx.pc = "declared"
    /\ rx' = [rx EXCEPT
                !.pc = "streaming",
                !.xi_reactive =
                    PipeAll([k \in 1 .. Len(rx.names) |->
                                Component(rx.names[k], k)], Len(rx.names))]
    /\ UNCHANGED <<fsmVars, loopVars, ic, dc, es, rd>>

\* line 189: xi_reactive.onNext(c) for the next element c
StreamNext ==
    /\ rx.pc = "streaming"
    /\ rx.sent < Len(rx.xi_collection)
    /\ LET r == onNext(rx.xi_reactive, rx.xi_collection[rx.sent + 1], rx.calls)
       IN  rx' = [rx EXCEPT !.sent = @ + 1, !.xi_reactive = r.comp,
                            !.calls = r.calls]
    /\ UNCHANGED <<fsmVars, loopVars, ic, dc, es, rd>>

\* line 190: xi_reactive.onEnd()
StreamEnd ==
    /\ rx.pc = "streaming"
    /\ rx.sent = Len(rx.xi_collection)
    /\ LET r == onEnd(rx.xi_reactive, rx.calls)
       IN  rx' = [rx EXCEPT !.pc = "ended", !.xi_reactive = r.comp,
                            !.calls = r.calls]
    /\ UNCHANGED <<fsmVars, loopVars, ic, dc, es, rd>>

NextReactive == Compose \/ StreamNext \/ StreamEnd

SpecReactive == InitReactive /\ [][NextReactive]_vars

RECURSIVE LeftFold(_, _, _)
\* ((init + s[1]) + s[2]) + ... over the first n elements of s
LeftFold(s, n, init) ==
    IF n = 0 THEN init ELSE LeftFold(s, n - 1, init) + s[n]

IsEven(v) == v % 2 = 0

\* what a stage hands to the next one, given everything it received, once
\* its input has ended
StageOutput(name, in) ==
    IF name = "square" THEN [i \in 1 .. Len(in) |-> in[i] * in[i]]
    ELSE IF name = "keep_even" THEN SelectSeq(in, IsEven)
    ELSE IF name = "sum" THEN <<LeftFold(in, Len(in), 0)>>
    ELSE [i \in 1 .. Len(in) |-> 0]

RECURSIVE StageInput(_, _, _)
\* what stage k of names receives when coll is streamed into the chain
StageInput(names, k, coll) ==
    IF k = 1 THEN coll
    ELSE StageOutput(names[k - 1], StageInput(names, k - 1, coll))

FoldBefore(names, k) == \E j \in 1 .. k - 1 : names[j] = "sum"

Delivered == SubSeq(rx.xi_collection, 1, rx.sent)

AsCalls(in) == [i \in 1 .. Len(in) |-> OnNextCall(in[i])]

\* C25: collection >> chain hands every element to the chain in collection
\* order through onNext and then calls onEnd once; in a chain c1 | ... | cn
\* every stage receives, in order, what the stages to its left make of the
\* elements sent so far (map applies its function, filter drops what fails
\* its predicate); a stage to the right of a fold receives nothing while the
\* collection is streamed, and once it has ended it has received the left
\* fold exactly once, followed by one onEnd.
C25_StreamThroughChain ==
    rx.pc \in {"streaming", "ended"} =>
        \A k \in 1 .. Len(rx.names) :
            rx.calls[k] =
                IF rx.pc = "ended"
                THEN Append(AsCalls(StageInput(rx.names, k, rx.xi_collection)),
                            OnEndCall)
                ELSE IF FoldBefore(rx.names, k) THEN <<>>
                ELSE AsCalls(StageInput(rx.names, k, Delivered))

\* the header's chain square | keep_even | sum | output has been fed 1, 2, 3
\* and ended: output received the sum of the even squares once
C25_Witness ==
    /\ rx.pc = "ended"
    /\ rx.names = <<"square", "keep_even", "sum", "output">>
    /\ rx.xi_collection = <<1, 2, 3>>
    /\ rx.calls[3] = <<OnNextCall(4), OnEndCall>>
    /\ rx.calls[4] = <<OnNextCall(4), OnEndCall>>

=============================================================================
